---- MODULE Spec2Model ----
(***************************************************************************)
(* Model of the retrying HTTP client (src/src/api_client.py), of the       *)
(* JSON-file state store (src/src/state_manager.py) and of the file cache  *)
(* (src/src/cache_manager.py).                                             *)
(*                                                                         *)
(* Durations are whole seconds.  The jitter random.uniform(0, 1) is        *)
(* represented by its two extreme values.                                  *)
(***************************************************************************)
EXTENDS Integers, Sequences, FiniteSets, TLC

VARIABLES
    \* ---- APIClient fields (api_client.py:27-30)
    base_retries, base_delay, max_delay, rate_limit_delay,
    \* ---- one call of the wrapper of _with_retry (api_client.py:36-54)
    cpc,             \* "idle" | "loop" | "returned" | "raised"
    method,          \* "get" or "post": the decorated function called
    url,             \* the url argument of the call in progress
    attempt,         \* the loop variable of "for attempt in range(...)"
    delay,           \* the local variable delay
    last_exception,  \* the local variable last_exception
    result,          \* what the call gave its caller: a response or an exception
    log,             \* history: the requests made and the sleeps slept, in order
    \* ---- the state store (state_manager.py)
    state_file,      \* content of app_state.json, a sequence of tokens
    file_exists,     \* os.path.exists(self.state_file)
    pc,              \* per caller: position inside the store call in progress
    op,              \* per caller: the store call in progress and its arguments
    loaded,          \* per caller: what its _load_state returned
    state,           \* per caller: the local variable state (a document)
    offset,          \* per caller: write position of the file object opened 'w'
    ret,             \* per caller: outcome of its last finished call
    calls,           \* number of store calls started so far
    order,           \* history: the file accesses, in order
    last_saved,      \* history: the document of the last completed save_state call
    entry,           \* history, per caller: the file when its call was entered
    prev,            \* history, per caller: its call before the one in op
    \* ---- the cache (cache_manager.py)
    cache_dir,       \* the files of the cache directory: file name -> content
    cache_subdirs,   \* names of the subdirectories found in the cache directory
    now,             \* datetime.now(), in seconds
    last_call,       \* history: the last cache call, its arguments and result
    prev_call,       \* history: the cache call before it, without its result
    \* ---- the app (app.py)
    session,         \* per browser session: st.session_state
    app_log,         \* history: the handlers run, in order
    \* ---- the optimizer (optimizer.py)
    page_log         \* history: the calls of _get_page_data, in order

clientVars == <<base_retries, base_delay, max_delay, rate_limit_delay,
                cpc, method, url, attempt, delay, last_exception, result, log>>
storeVars == <<state_file, file_exists, pc, op, loaded, state, offset, ret, calls,
               order, last_saved, entry, prev>>
cacheVars == <<cache_dir, cache_subdirs, now, last_call, prev_call>>
appVars == <<session, app_log, page_log>>
vars == <<clientVars, storeVars, cacheVars, appVars>>

\* ------------------------------------------------------------------ bounds
MaxRetries == 3
MaxDelay == 3
MaxTime == 2
MaxAge == 1
MaxAppCalls == 2
MaxPageCalls == 2

Min(a, b) == IF a <= b THEN a ELSE b

\* ------------------------------------------------------------ HTTP client

\* random.uniform(0, 1): the two ends of the interval
Jitter == {0, 1}

Urls == {"http://ok", "malformed"}

\* What the server may answer to one request; 0 stands for a transport
\* failure (no status line was received).
Replies == {200, 429, 500, 0}

NoException == [cls |-> "None", status |-> 0, at |-> 0]

\* response.raise_for_status(): 4xx and 5xx raise HTTPError
raise_for_status(status) == 400 <= status /\ status < 600

\* The decorated function (get or post) called for the i-th time with url u
\* when the network answers r: the response it returns or the exception it
\* raises.  requests raises MissingSchema for a malformed url before any I/O.
func(u, r, i) ==
    IF u = "malformed"
        THEN [ok |-> FALSE, cls |-> "MissingSchema", status |-> 0, at |-> i]
    ELSE IF r = 0
        THEN [ok |-> FALSE, cls |-> "ConnectionError", status |-> 0, at |-> i]
    ELSE IF raise_for_status(r)
        THEN [ok |-> FALSE, cls |-> "HTTPError", status |-> r, at |-> i]
    ELSE [ok |-> TRUE, cls |-> "Response", status |-> r, at |-> i]

Exc(o) == [cls |-> o.cls, status |-> o.status, at |-> o.at]

Event(ev, o, n) == [ev |-> ev, cls |-> o.cls, status |-> o.status, at |-> o.at, n |-> n]

\* "for attempt in range(self.base_retries)": whether another iteration runs
LoopContinuesOffByOne(a) == a <= base_retries
LoopContinues(a) == a < base_retries

\* "delay = min(delay * 2 + random.uniform(0, 1), self.max_delay)"
BackoffUncapped(d, j) == d * 2 + j
Backoff(d, j) == Min(d * 2 + j, max_delay)

\* "if e.response.status_code == 429: time.sleep(self.rate_limit_delay)"
RateLimitSleepsNever(o) == <<>>
RateLimitSleeps(o) ==
    IF o.status = 429 THEN <<Event("sleep_rate", o, rate_limit_delay)>> ELSE <<>>

\* "last_exception = e"
KeepFirstException(last, e) == IF last = NoException THEN e ELSE last
NextLastException(last, e) == e

\* APIClient.__init__: any configuration within the bounds
InitClient ==
    /\ base_retries \in 1..MaxRetries
    /\ base_delay \in 0..MaxDelay
    /\ max_delay \in 0..MaxDelay
    /\ rate_limit_delay \in {0, 1}
    /\ cpc = "idle"
    /\ method = "get"
    /\ url = "http://ok"
    /\ attempt = 0
    /\ delay = 0
    /\ last_exception = NoException
    /\ result = NoException
    /\ log = <<>>

config == <<base_retries, base_delay, max_delay, rate_limit_delay>>

\* wrapper entered: "last_exception = None; delay = self.base_delay"
Enter(m, u) ==
    /\ cpc = "idle"
    /\ cpc' = "loop"
    /\ method' = m
    /\ url' = u
    /\ attempt' = 0
    /\ delay' = base_delay
    /\ last_exception' = NoException
    /\ UNCHANGED <<config, result, log>>
    /\ UNCHANGED <<storeVars, cacheVars, appVars>>

\* APIClient.get, decorated
get ==
    /\ cpc = "idle"
    /\ \E u \in Urls : Enter("get", u)

\* APIClient.post, decorated
post ==
    /\ cpc = "idle"
    /\ \E u \in Urls : Enter("post", u)

\* "return func(self, *args, **kwargs)" when func returns
wrapper_return_after_sleep ==
    /\ cpc = "loop" /\ LoopContinues(attempt)
    /\ \E r \in Replies :
        LET o == func(url, r, attempt + 1) IN
        /\ o.ok
        /\ log' = log \o <<Event("attempt", o, 0), Event("sleep_backoff", o, delay)>>
        /\ result' = Exc(o)
        /\ cpc' = "returned"
    /\ UNCHANGED <<config, method, url, attempt, delay, last_exception>>
    /\ UNCHANGED <<storeVars, cacheVars, appVars>>

wrapper_return ==
    /\ cpc = "loop" /\ LoopContinues(attempt)
    /\ \E r \in Replies :
        LET o == func(url, r, attempt + 1) IN
        /\ o.ok
        /\ log' = Append(log, Event("attempt", o, 0))
        /\ result' = Exc(o)
        /\ cpc' = "returned"
    /\ UNCHANGED <<config, method, url, attempt, delay, last_exception>>
    /\ UNCHANGED <<storeVars, cacheVars, appVars>>

\* One failed iteration: func raises, the except clause runs, then the
\* backoff lines 50-52.
Failed(o, j, slept) ==
    LET d == Backoff(delay, j) IN
    /\ last_exception' = NextLastException(last_exception, Exc(o))
    /\ delay' = d
    /\ log' = log \o <<Event("attempt", o, 0)>> \o slept
                  \o <<Event("sleep_backoff", o, d)>>
    /\ attempt' = attempt + 1
    /\ UNCHANGED <<config, cpc, method, url, result>>
    /\ UNCHANGED <<storeVars, cacheVars, appVars>>

\* "except requests.exceptions.HTTPError as e"
wrapper_except_HTTPError ==
    /\ cpc = "loop" /\ LoopContinues(attempt)
    /\ \E r \in Replies, j \in Jitter :
        LET o == func(url, r, attempt + 1) IN
        /\ ~o.ok /\ o.cls = "HTTPError"
        /\ Failed(o, j, RateLimitSleeps(o))

\* "except Exception as e"
wrapper_except_Exception ==
    /\ cpc = "loop" /\ LoopContinues(attempt)
    /\ \E r \in Replies, j \in Jitter :
        LET o == func(url, r, attempt + 1) IN
        /\ ~o.ok /\ o.cls # "HTTPError"
        /\ Failed(o, j, <<>>)

\* "raise last_exception" after the loop
wrapper_raise ==
    /\ cpc = "loop" /\ ~LoopContinues(attempt)
    /\ cpc' = "raised"
    /\ result' = last_exception
    /\ UNCHANGED <<config, method, url, attempt, delay, last_exception, log>>
    /\ UNCHANGED <<storeVars, cacheVars, appVars>>


\* ------------------------------------------------------------ state store

MaxCalls == 2

Procs == {1, 2}
Keys == {"k1", "k2"}
Values == {"v1", "v2"}

CollectionOrder == <<"favorites", "saved_gigs", "analysis_history", "generated_gigs">>
CollectionNames == {CollectionOrder[i] : i \in 1..Len(CollectionOrder)}

EmptyMap == [k \in {} |-> "v1"]

\* A document (a Python dict): has is the set of its keys; a collection that
\* is not in has holds its empty value.
Doc(h, f, g, a, n) ==
    [type |-> "dict", has |-> h, favorites |-> f, saved_gigs |-> g,
     analysis_history |-> a, generated_gigs |-> n]

\* the literal of lines 36-41, 44-49, 23-28 and 116-121
DefaultState == Doc(CollectionNames, <<>>, EmptyMap, EmptyMap, EmptyMap)

\* the {} that the Clear Cache button saves (app.py:460)
EmptyDict == Doc({}, <<>>, EmptyMap, EmptyMap, EmptyMap)

\* what json.load returns for a file that holds the JSON array []: a list
EmptyList == [EmptyDict EXCEPT !.type = "list"]

Upsert(m, k, v) == [x \in DOMAIN m \cup {k} |-> IF x = k THEN v ELSE m[x]]
Delete(m, k) == [x \in DOMAIN m \ {k} |-> m[x]]
Elems(q) == {q[i] : i \in 1..Len(q)}
RemoveFirst(q, k) ==
    LET i == CHOOSE i \in 1..Len(q) : q[i] = k /\ \A j \in 1..(i - 1) : q[j] # k
    IN SubSeq(q, 1, i - 1) \o SubSeq(q, i + 1, Len(q))

\* Documents the file holds when the model starts, and the arguments of
\* save_state.
InitDocuments ==
    { DefaultState,
      EmptyDict,
      Doc(CollectionNames, <<"k1">>, Upsert(EmptyMap, "k1", "v1"),
          Upsert(EmptyMap, "k2", "v2"), EmptyMap),
      Doc(CollectionNames, <<"k2", "k1">>, EmptyMap,
          Upsert(EmptyMap, "k1", "v2"), Upsert(EmptyMap, "k2", "v1")) }
Documents == InitDocuments

\* ---- the JSON text: one token per member of the object, then the closing
\* brace.  A text that lacks the closing brace is not a JSON document.
EndToken == [name |-> "}", fav |-> <<>>, map |-> EmptyMap]
Hole == [name |-> "NUL", fav |-> <<>>, map |-> EmptyMap]
ListToken == [name |-> "[]", fav |-> <<>>, map |-> EmptyMap]
Member(d, c) ==
    [name |-> c,
     fav |-> IF c = "favorites" THEN d.favorites ELSE <<>>,
     map |-> IF c = "favorites" THEN EmptyMap ELSE d[c]]

\* json.dump(state, f, indent=2): what is written, in order
SerializeWithoutLast(d) ==
    LET In(c) == c \in d.has /\ c # "generated_gigs"
    IN [i \in 1..Len(SelectSeq(CollectionOrder, In)) |->
            Member(d, SelectSeq(CollectionOrder, In)[i])] \o <<EndToken>>
Serialize(d) ==
    LET In(c) == c \in d.has
    IN IF d.type = "list" THEN <<ListToken>>
       ELSE [i \in 1..Len(SelectSeq(CollectionOrder, In)) |->
               Member(d, SelectSeq(CollectionOrder, In)[i])] \o <<EndToken>>

\* json.load(f): whether the text is one JSON value (an object or the array
\* []), and the value it gives (a repeated member name keeps its last value)
IsObject(text) ==
    /\ Len(text) >= 1
    /\ text[Len(text)] = EndToken
    /\ \A i \in 1..(Len(text) - 1) : text[i].name \in CollectionNames
ParseOk(text) == IsObject(text) \/ text = <<ListToken>>
Last(text, c) ==
    text[CHOOSE i \in 1..Len(text) :
            text[i].name = c /\ \A j \in (i + 1)..Len(text) : text[j].name # c]
Parse(text) ==
    LET h == {text[i].name : i \in 1..(Len(text) - 1)}
        M(c) == IF c \in h THEN Last(text, c).map ELSE EmptyMap
    IN IF text = <<ListToken>> THEN EmptyList
       ELSE Doc(h, IF "favorites" \in h THEN Last(text, "favorites").fav ELSE <<>>,
                M("saved_gigs"), M("analysis_history"), M("generated_gigs"))

\* _load_state: the parsed file, or the default document when json.load raises
load_state(text) == IF ParseOk(text) THEN Parse(text) ELSE DefaultState

\* _load_state on the file as it is now: the default document when
\* os.path.exists is false
load_state_file == IF file_exists THEN load_state(state_file) ELSE DefaultState

\* f.write at position off of a file object opened with 'w': the bytes at
\* off.. are replaced, the file grows when needed
WriteAt(text, off, toks) ==
    LET n == IF Len(text) > off + Len(toks) THEN Len(text) ELSE off + Len(toks)
    IN [i \in 1..n |->
          IF i > off /\ i <= off + Len(toks) THEN toks[i - off]
          ELSE IF i <= Len(text) THEN text[i]
          ELSE Hole]

\* open(self.state_file, 'w') truncates the file
OpenTruncate(text) == <<>>

NoOp == [name |-> "none", key |-> "", val |-> "", doc |-> EmptyDict]
Op(n, k, v, d) == [name |-> n, key |-> k, val |-> v, doc |-> d]
NoRet == [kind |-> "none", fav |-> <<>>, map |-> EmptyMap]
Returned == [kind |-> "returned", fav |-> <<>>, map |-> EmptyMap]
Raised == [kind |-> "KeyError", fav |-> <<>>, map |-> EmptyMap]
\* a list has no method get, and no str index
RaisedAttributeError == [kind |-> "AttributeError", fav |-> <<>>, map |-> EmptyMap]
RaisedTypeError == [kind |-> "TypeError", fav |-> <<>>, map |-> EmptyMap]
Exceptions == {Raised, RaisedAttributeError, RaisedTypeError}

Getters == {"get_favorites", "get_saved_gigs", "get_analysis_history", "get_generated_gigs"}
CollectionOf(n) ==
    CASE n \in {"get_favorites", "add_to_favorites", "remove_from_favorites"} -> "favorites"
      [] n \in {"get_saved_gigs", "save_gig", "delete_gig"} -> "saved_gigs"
      [] n \in {"get_analysis_history", "add_to_history"} -> "analysis_history"
      [] OTHER -> "generated_gigs"

\* self._load_state().get(name, default)
GetterValue(n, st) ==
    IF st.type = "list" THEN RaisedAttributeError
    ELSE IF n = "get_favorites"
        THEN [kind |-> "value", fav |-> st.favorites, map |-> EmptyMap]
        ELSE [kind |-> "value", fav |-> <<>>, map |-> st[CollectionOf(n)]]

\* The body of a mutator between _load_state and save_state, on the loaded
\* document st: the exception state[...] raises (NoRet when none), whether
\* save_state is called, and the document then held by the local variable
\* state.
EffectAlwaysSaving(o, st) ==
    LET c == CollectionOf(o.name) IN
    IF st.type = "list" THEN [raise |-> RaisedTypeError, save |-> FALSE, doc |-> st]
    ELSE IF c \notin st.has THEN [raise |-> Raised, save |-> FALSE, doc |-> st]
    ELSE CASE o.name = "add_to_favorites" ->
                [raise |-> NoRet, save |-> TRUE,
                 doc |-> IF o.key \notin Elems(st.favorites)
                           THEN [st EXCEPT !.favorites = Append(@, o.key)] ELSE st]
           [] o.name = "remove_from_favorites" ->
                [raise |-> NoRet, save |-> TRUE,
                 doc |-> IF o.key \in Elems(st.favorites)
                           THEN [st EXCEPT !.favorites = RemoveFirst(@, o.key)] ELSE st]
           [] o.name = "delete_gig" ->
                [raise |-> NoRet, save |-> TRUE,
                 doc |-> [st EXCEPT !.saved_gigs = Delete(@, o.key)]]
           [] OTHER ->
                [raise |-> NoRet, save |-> TRUE,
                 doc |-> [st EXCEPT ![c] = Upsert(@, o.key, o.val)]]
Effect(o, st) ==
    LET c == CollectionOf(o.name) IN
    IF st.type = "list" THEN [raise |-> RaisedTypeError, save |-> FALSE, doc |-> st]
    ELSE IF c \notin st.has THEN [raise |-> Raised, save |-> FALSE, doc |-> st]
    ELSE CASE o.name = "add_to_favorites" ->
                IF o.key \notin Elems(st.favorites)
                    THEN [raise |-> NoRet, save |-> TRUE,
                          doc |-> [st EXCEPT !.favorites = Append(@, o.key)]]
                    ELSE [raise |-> NoRet, save |-> FALSE, doc |-> st]
           [] o.name = "remove_from_favorites" ->
                IF o.key \in Elems(st.favorites)
                    THEN [raise |-> NoRet, save |-> TRUE,
                          doc |-> [st EXCEPT !.favorites = RemoveFirst(@, o.key)]]
                    ELSE [raise |-> NoRet, save |-> FALSE, doc |-> st]
           [] o.name = "delete_gig" ->
                IF o.key \in DOMAIN st.saved_gigs
                    THEN [raise |-> NoRet, save |-> TRUE,
                          doc |-> [st EXCEPT !.saved_gigs = Delete(@, o.key)]]
                    ELSE [raise |-> NoRet, save |-> FALSE, doc |-> st]
           [] OTHER ->
                [raise |-> NoRet, save |-> TRUE,
                 doc |-> [st EXCEPT ![c] = Upsert(@, o.key, o.val)]]

\* StateManager.__init__ has run: the file exists and holds a document
NoEntry == [file |-> <<>>, exists |-> FALSE, mark |-> 0]
NoPrev == [op |-> NoOp, ret |-> NoRet]

\* no caller is inside the store
NoCaller ==
    /\ pc = [p \in Procs |-> "idle"]
    /\ op = [p \in Procs |-> NoOp]
    /\ loaded = [p \in Procs |-> EmptyDict]
    /\ state = [p \in Procs |-> EmptyDict]
    /\ offset = [p \in Procs |-> 0]
    /\ ret = [p \in Procs |-> NoRet]
    /\ calls = 0
    /\ order = <<>>
    /\ last_saved = [valid |-> FALSE, doc |-> EmptyDict]
    /\ entry = [p \in Procs |-> NoEntry]
    /\ prev = [p \in Procs |-> NoPrev]

InitStore ==
    /\ state_file \in {Serialize(d) : d \in InitDocuments}
    /\ file_exists = TRUE
    /\ NoCaller

\* A caller enters a store method.  save_state and clear_state go straight to
\* the write; the others start with _load_state.
Call(p, o) ==
    /\ pc[p] = "idle"
    /\ calls < MaxCalls
    /\ calls' = calls + 1
    /\ op' = [op EXCEPT ![p] = o]
    /\ ret' = [ret EXCEPT ![p] = NoRet]
    /\ IF o.name \in {"save_state", "clear_state"}
         THEN /\ pc' = [pc EXCEPT ![p] = "open"]
              /\ state' = [state EXCEPT ![p] = o.doc]
         ELSE /\ pc' = [pc EXCEPT ![p] = "load"]
              /\ state' = state
    /\ last_saved' = IF o.name \in Getters THEN last_saved
                     ELSE [valid |-> FALSE, doc |-> EmptyDict]
    /\ entry' = [entry EXCEPT ![p] =
                    [file |-> state_file, exists |-> file_exists, mark |-> Len(order)]]
    /\ prev' = [prev EXCEPT ![p] =
                  [op |-> op[p], ret |-> ret[p]]]
    /\ UNCHANGED <<state_file, file_exists, loaded, offset, order>>
    /\ UNCHANGED <<clientVars, cacheVars, appVars>>

save_state(p) ==
    /\ pc[p] = "idle"
    /\ \E d \in Documents : Call(p, Op("save_state", "", "", d))
clear_state(p) ==
    /\ pc[p] = "idle"
    /\ Call(p, Op("clear_state", "", "", DefaultState))
get_favorites(p) ==
    /\ pc[p] = "idle"
    /\ Call(p, Op("get_favorites", "", "", EmptyDict))
get_saved_gigs(p) ==
    /\ pc[p] = "idle"
    /\ Call(p, Op("get_saved_gigs", "", "", EmptyDict))
get_analysis_history(p) ==
    /\ pc[p] = "idle"
    /\ Call(p, Op("get_analysis_history", "", "", EmptyDict))
get_generated_gigs(p) ==
    /\ pc[p] = "idle"
    /\ Call(p, Op("get_generated_gigs", "", "", EmptyDict))
add_to_favorites(p) ==
    /\ pc[p] = "idle"
    /\ \E k \in Keys : Call(p, Op("add_to_favorites", k, "", EmptyDict))
remove_from_favorites(p) ==
    /\ pc[p] = "idle"
    /\ \E k \in Keys : Call(p, Op("remove_from_favorites", k, "", EmptyDict))
save_gig(p) ==
    /\ pc[p] = "idle"
    /\ \E k \in Keys, v \in Values : Call(p, Op("save_gig", k, v, EmptyDict))
delete_gig(p) ==
    /\ pc[p] = "idle"
    /\ \E k \in Keys : Call(p, Op("delete_gig", k, "", EmptyDict))
add_to_history(p) ==
    /\ pc[p] = "idle"
    /\ \E k \in Keys, v \in Values : Call(p, Op("add_to_history", k, v, EmptyDict))
add_generated_gig(p) ==
    /\ pc[p] = "idle"
    /\ \E k \in Keys, v \in Values : Call(p, Op("add_generated_gig", k, v, EmptyDict))

Access(p, ev, bad) == [p |-> p, ev |-> ev, failed |-> bad]

\* "state = self._load_state()" and the lines up to the call of save_state;
\* for a getter, the whole method.
LoadStep(p) ==
    /\ pc[p] = "load"
    /\ order' = Append(order, Access(p, "load", file_exists /\ ~ParseOk(state_file)))
    /\ LET st == load_state_file
           e == Effect(op[p], st)
       IN IF op[p].name \in Getters
            THEN /\ ret' = [ret EXCEPT ![p] = GetterValue(op[p].name, st)]
                 /\ pc' = [pc EXCEPT ![p] = "idle"]
                 /\ state' = state
            ELSE /\ state' = [state EXCEPT ![p] = e.doc]
                 /\ ret' = [ret EXCEPT ![p] =
                              IF e.raise # NoRet THEN e.raise
                              ELSE IF e.save THEN NoRet ELSE Returned]
                 /\ pc' = [pc EXCEPT ![p] = IF e.save THEN "open" ELSE "idle"]
    /\ loaded' = [loaded EXCEPT ![p] = load_state_file]
    /\ UNCHANGED <<state_file, file_exists, op, offset, calls, last_saved, entry, prev>>
    /\ UNCHANGED <<clientVars, cacheVars, appVars>>

\* (variant) the document is read again and the change re-applied under the open
save_open_reloading(p) ==
    /\ pc[p] = "open"
    /\ state' = [state EXCEPT ![p] =
                   IF op[p].name \in {"save_state", "clear_state"} THEN @
                   ELSE Effect(op[p], load_state_file).doc]
    /\ state_file' = OpenTruncate(state_file)
    /\ file_exists' = TRUE
    /\ offset' = [offset EXCEPT ![p] = 0]
    /\ pc' = [pc EXCEPT ![p] = "write"]
    /\ order' = Append(order, Access(p, "open", FALSE))
    /\ UNCHANGED <<op, loaded, ret, calls, last_saved, entry, prev>>
    /\ UNCHANGED <<clientVars, cacheVars, appVars>>

\* save_state: "with open(self.state_file, 'w') as f"
save_open(p) ==
    /\ pc[p] = "open"
    /\ state_file' = OpenTruncate(state_file)
    /\ file_exists' = TRUE
    /\ offset' = [offset EXCEPT ![p] = 0]
    /\ pc' = [pc EXCEPT ![p] = "write"]
    /\ order' = Append(order, Access(p, "open", FALSE))
    /\ UNCHANGED <<op, loaded, state, ret, calls, last_saved, entry, prev>>
    /\ UNCHANGED <<clientVars, cacheVars, appVars>>

\* (variant) a mutator writes its own collection only
TextOfOwnCollection(p) ==
    IF op[p].name \in {"save_state", "clear_state"} THEN Serialize(state[p])
    ELSE Serialize([state[p] EXCEPT !.has = @ \cap {CollectionOf(op[p].name)}])
\* What save_state writes for the caller's document
TextOf(p) == Serialize(state[p])

\* save_state: json.dump writes the text into the buffered file object.  The
\* text reaches the file in one piece, or in two: the first n tokens when the
\* buffer is flushed, the rest when the file is closed.  After the last piece
\* save_state returns.
save_write(p) ==
    /\ pc[p] = "write"
    /\ \E n \in 1..(Len(TextOf(p)) - offset[p]) :
        LET done == offset[p] + n = Len(TextOf(p)) IN
        /\ offset[p] > 0 => done
        /\ state_file' = WriteAt(state_file, offset[p],
                                 SubSeq(TextOf(p), offset[p] + 1, offset[p] + n))
        /\ offset' = [offset EXCEPT ![p] = @ + n]
        /\ pc' = [pc EXCEPT ![p] = IF done THEN "idle" ELSE "write"]
        /\ ret' = [ret EXCEPT ![p] = IF done THEN Returned ELSE @]
        /\ order' = IF done THEN Append(order, Access(p, "close", FALSE)) ELSE order
        /\ last_saved' = IF done /\ op[p].name = "save_state"
                           THEN [valid |-> TRUE, doc |-> state[p]]
                           ELSE last_saved
    /\ UNCHANGED <<file_exists, op, loaded, state, calls, entry, prev>>
    /\ UNCHANGED <<clientVars, cacheVars, appVars>>

\* save_state: open raises (OSError); "except Exception" prints and returns
save_open_fails(p) ==
    /\ pc[p] = "open"
    /\ pc' = [pc EXCEPT ![p] = "idle"]
    /\ ret' = [ret EXCEPT ![p] = Returned]
    /\ order' = Append(order, Access(p, "open", TRUE))
    /\ UNCHANGED <<state_file, file_exists, op, loaded, state, offset, calls,
                   last_saved, entry, prev>>
    /\ UNCHANGED <<clientVars, cacheVars, appVars>>

\* save_state: a write raises part-way; "except Exception" prints and returns
save_write_fails(p) ==
    /\ pc[p] = "write"
    /\ pc' = [pc EXCEPT ![p] = "idle"]
    /\ ret' = [ret EXCEPT ![p] = Returned]
    /\ order' = Append(order, Access(p, "close", TRUE))
    /\ UNCHANGED <<state_file, file_exists, op, loaded, state, offset, calls,
                   last_saved, entry, prev>>
    /\ UNCHANGED <<clientVars, cacheVars, appVars>>

\* ------------------------------------------------------------------ cache

\* keys are strings, here sequences of characters
CacheKeys == { <<"a">>, <<"a", "/", "b">>, <<"a", "_", "b">> }
CacheData == {"d1", "d2"}

\* the max_age argument: None or a timedelta of whole seconds
None == [none |-> TRUE, secs |-> 0]
timedelta(n) == [none |-> FALSE, secs |-> n]
MaxAges == {None} \cup {timedelta(n) : n \in 0..MaxAge}

\* "if max_age:" -- None and timedelta(0) are both false
Truthy(m) == ~m.none /\ m.secs # 0

\* _get_cache_key: key.replace('/', '_') + ".json"
get_cache_key(key) ==
    [i \in 1..Len(key) |-> IF key[i] = "/" THEN "_" ELSE key[i]] \o <<".json">>

\* datetime.isoformat() and datetime.fromisoformat()
isoformat(t) == [iso |-> t]
fromisoformat(x) == x.iso

\* A cache file: whole says that its text is one JSON document, timestamp
\* and data are the members of that document.
CacheFile(t, d) == [whole |-> TRUE, timestamp |-> isoformat(t), data |-> d]
\* the file after open(cache_file, 'w') and a json.dump that raised part-way
CutShort == [whole |-> FALSE, timestamp |-> isoformat(0), data |-> ""]
NoFiles == [f \in {} |-> CutShort]
Miss == [hit |-> FALSE, data |-> ""]
Hit(d) == [hit |-> TRUE, data |-> d]
NoCall == [op |-> "none", key |-> <<>>, max_age |-> None, data |-> "", at |-> 0,
           ret |-> Miss]
CacheCall(o, k, m, d, r) ==
    [op |-> o, key |-> k, max_age |-> m, data |-> d, at |-> now, ret |-> r]
\* what is kept of a call once another one has followed it
Before(c) == [c EXCEPT !.max_age = None, !.ret = Miss]

\* lines 44-47: whether get treats the entry as expired
IsExpiredFromZero(m, age) == ~m.none /\ age >= m.secs
IsExpired(m, age) == Truthy(m) /\ age > m.secs

\* What CacheManager.get (cache_manager.py:24-53) returns: None when the file
\* is not there, when json.load raises, or when the entry is expired
get_result(k, m) ==
    LET cache_file == get_cache_key(k) IN
    IF cache_file \notin DOMAIN cache_dir THEN Miss
    ELSE LET cached_data == cache_dir[cache_file] IN
         IF ~cached_data.whole THEN Miss
         ELSE IF IsExpired(m, now - fromisoformat(cached_data.timestamp))
                 THEN Miss
                 ELSE Hit(cached_data.data)

\* CacheManager.get (cache_manager.py:24-53)
cache_get ==
    \E k \in CacheKeys, m \in MaxAges :
        LET r == get_result(k, m)
        IN /\ last_call' = CacheCall("get", k, m, "", r)
           /\ prev_call' = Before(last_call)
           /\ UNCHANGED <<cache_dir, cache_subdirs, now>>
           /\ UNCHANGED <<clientVars, storeVars, appVars>>

\* CacheManager.set (cache_manager.py:55-74), the write succeeding
cache_set ==
    \E k \in CacheKeys, d \in CacheData :
        LET cache_file == get_cache_key(k)
            cache_data == CacheFile(now, d)
        IN /\ cache_dir' = [f \in DOMAIN cache_dir \cup {cache_file} |->
                              IF f = cache_file THEN cache_data ELSE cache_dir[f]]
           /\ last_call' = CacheCall("set", k, None, d, Miss)
           /\ prev_call' = Before(last_call)
           /\ UNCHANGED <<cache_subdirs, now>>
           /\ UNCHANGED <<clientVars, storeVars, appVars>>

\* CacheManager.set when open raises (the cache is left as it was) or when
\* json.dump raises after open has truncated the file; "except Exception"
\* warns and returns
cache_set_fails ==
    \E k \in CacheKeys, opened \in BOOLEAN :
        LET cache_file == get_cache_key(k)
        IN /\ cache_dir' = IF opened
                             THEN [f \in DOMAIN cache_dir \cup {cache_file} |->
                                     IF f = cache_file THEN CutShort ELSE cache_dir[f]]
                             ELSE cache_dir
           /\ last_call' = CacheCall("set_failed", k, None, "", Miss)
           /\ prev_call' = Before(last_call)
           /\ UNCHANGED <<cache_subdirs, now>>
           /\ UNCHANGED <<clientVars, storeVars, appVars>>

\* CacheManager.invalidate (cache_manager.py:76-88)
cache_invalidate ==
    \E k \in CacheKeys :
        LET cache_file == get_cache_key(k)
        IN /\ cache_dir' = [f \in DOMAIN cache_dir \ {cache_file} |-> cache_dir[f]]
           /\ last_call' = CacheCall("invalidate", k, None, "", Miss)
           /\ prev_call' = Before(last_call)
           /\ UNCHANGED <<cache_subdirs, now>>
           /\ UNCHANGED <<clientVars, storeVars, appVars>>

\* CacheManager.clear (cache_manager.py:90-96): os.remove is called on the
\* names of os.listdir, which come in any order; on a subdirectory it raises,
\* "except Exception" warns and the names not yet reached are left.
cache_clear ==
    \E removed \in SUBSET DOMAIN cache_dir :
        /\ cache_subdirs = {} => removed = DOMAIN cache_dir
        /\ cache_dir' = [f \in DOMAIN cache_dir \ removed |-> cache_dir[f]]
        /\ last_call' = CacheCall("clear", <<>>, None, "", Miss)
        /\ prev_call' = Before(last_call)
        /\ UNCHANGED <<cache_subdirs, now>>
    /\ UNCHANGED <<clientVars, storeVars, appVars>>

\* time passes between two calls
Tick ==
    /\ now < MaxTime
    /\ now' = now + 1
    /\ UNCHANGED <<cache_dir, cache_subdirs, last_call, prev_call>>
    /\ UNCHANGED <<clientVars, storeVars, appVars>>

\* names that other programs may have left in the directory .cache
Subdirs == { <<"sub">> }

\* CacheManager.__init__ on a directory that exists already and holds no file
InitCacheFound ==
    /\ cache_dir = NoFiles
    /\ cache_subdirs \in SUBSET Subdirs
    /\ now = 0
    /\ last_call = NoCall
    /\ prev_call = NoCall

\* CacheManager.__init__ on a new directory
InitCache ==
    /\ cache_dir = NoFiles
    /\ cache_subdirs = {}
    /\ now = 0
    /\ last_call = NoCall
    /\ prev_call = NoCall

\* -------------------------------------------------------------------- app

Sessions == {"A", "B"}

\* st.session_state of a session: state_initialized and the four mirrors
\* (app.py:29-34), held as a document
NoSession == [state_initialized |-> FALSE, mirror |-> EmptyDict]

\* A store method run from its entry to its return with no failing open or
\* write, on the file text: the exception it raises (NoRet when none) and the
\* file it leaves.
StoreCall(o, text) ==
    LET e == Effect(o, load_state(text))
    IN [raise |-> e.raise,
        file |-> IF e.save THEN Serialize(e.doc) ELSE text]

\* "if 'state_initialized' not in st.session_state" (app.py:29-34): the
\* mirrors are filled from the store's getters
session_init(s) ==
    /\ ~session[s].state_initialized
    /\ LET st == load_state_file
       IN session' = [session EXCEPT ![s] =
            [state_initialized |-> TRUE,
             mirror |-> Doc(CollectionNames,
                            GetterValue("get_favorites", st).fav,
                            GetterValue("get_saved_gigs", st).map,
                            GetterValue("get_analysis_history", st).map,
                            GetterValue("get_generated_gigs", st).map)]]
    /\ UNCHANGED <<app_log, page_log>>
    /\ UNCHANGED <<clientVars, storeVars, cacheVars>>

\* what is recorded of a handler: the sessions initialised when it ran and
\* whether its key was in the persisted collection when it returned
AppEvent(s, o, k, v, file) ==
    [s |-> s, op |-> o, key |-> k, val |-> v,
     inited |-> {x \in Sessions : session[x].state_initialized},
     persisted |-> CASE o = "save_to_favorites" ->
                          k \in Elems(load_state(file).favorites)
                     [] o = "save_gig" ->
                          k \in DOMAIN load_state(file).saved_gigs
                     [] OTHER -> FALSE]

\* sync_state (app.py:36-47): the four mirrors are saved as the whole document
sync_state(mirror) == Serialize(mirror)

\* a handler changes state_file and nothing else of the store
StoreFile(text) ==
    /\ state_file' = text
    /\ UNCHANGED <<file_exists, pc, op, loaded, state, offset, ret, calls, order,
                   last_saved, entry, prev>>

\* save_to_favorites (app.py:57-69); an exception of the store method is
\* caught by "except Exception" before sync_state is reached
app_save_to_favorites(s) ==
    /\ session[s].state_initialized
    /\ Len(app_log) < MaxAppCalls
    /\ \E keyword \in Keys :
        LET mirror == session[s].mirror
            appended == [mirror EXCEPT !.favorites = Append(@, keyword)]
            r == StoreCall(Op("add_to_favorites", keyword, "", EmptyDict), state_file)
            text == IF keyword \in Elems(mirror.favorites) THEN state_file
                    ELSE IF r.raise # NoRet THEN r.file
                    ELSE sync_state(appended)
        IN /\ session' = [session EXCEPT ![s].mirror =
                            IF keyword \in Elems(mirror.favorites) THEN mirror
                            ELSE appended]
           /\ StoreFile(text)
           /\ app_log' = Append(app_log, AppEvent(s, "save_to_favorites", keyword, "", text))
    /\ UNCHANGED <<clientVars, cacheVars, page_log>>

\* save_gig (app.py:83-90)
app_save_gig(s) ==
    /\ session[s].state_initialized
    /\ Len(app_log) < MaxAppCalls
    /\ \E keyword \in Keys, gig_data \in Values :
        LET mirror == session[s].mirror
            stored == [mirror EXCEPT !.saved_gigs = Upsert(@, keyword, gig_data)]
            r == StoreCall(Op("save_gig", keyword, gig_data, EmptyDict), state_file)
            text == IF r.raise # NoRet THEN r.file ELSE sync_state(stored)
        IN /\ session' = [session EXCEPT ![s].mirror = stored]
           /\ StoreFile(text)
           /\ app_log' = Append(app_log, AppEvent(s, "save_gig", keyword, gig_data, text))
    /\ UNCHANGED <<clientVars, cacheVars, page_log>>

\* the Clear Cache button (app.py:453-463): every key of st.session_state is
\* deleted and {} is saved
clear_cache_button(s) ==
    /\ session[s].state_initialized
    /\ Len(app_log) < MaxAppCalls
    /\ session' = [session EXCEPT ![s] = NoSession]
    /\ StoreFile(Serialize(EmptyDict))
    /\ app_log' = Append(app_log, AppEvent(s, "clear_cache", "", "", Serialize(EmptyDict)))
    /\ UNCHANGED <<clientVars, cacheVars, page_log>>

\* no browser session yet
InitApp ==
    /\ session = [s \in Sessions |-> NoSession]
    /\ app_log = <<>>
    /\ page_log = <<>>

\* -------------------------------------------------------------- optimizer

\* the pages asked for, as the characters of their URL
PageUrls == { <<"h", "/", "p">>, <<"h", "/", "q">> }

\* timedelta(hours=1), in seconds
SecondsPerHour == 3600

\* what is recorded of a call of _get_page_data: when it ran, whether it
\* called api_client.get and where its return value came from
PageEvent(u, requested, from) ==
    [url |-> u, at |-> now, requested |-> requested, from |-> from]

\* FiverrGigOptimizer._get_page_data (optimizer.py:41-102): the cache is
\* asked for "page_data_<url>" with a max_age of one hour; on a hit the cached
\* page is returned, otherwise api_client.get is called and the parsed page is
\* returned, or None when the request or the parsing raised. Nothing is
\* written to the cache.
get_page_data ==
    /\ Len(page_log) < MaxPageCalls
    /\ \E u \in PageUrls, fetched \in BOOLEAN :
        LET cache_key == <<"page_data_">> \o u
            max_age == timedelta(SecondsPerHour)
            cached_data == get_result(cache_key, max_age)
        IN /\ last_call' = CacheCall("get", cache_key, max_age, "", cached_data)
           /\ prev_call' = Before(last_call)
           /\ page_log' = Append(page_log,
                  IF cached_data.hit /\ cached_data.data # ""
                     THEN PageEvent(u, FALSE, "cache")
                     ELSE PageEvent(u, TRUE, IF fetched THEN "response" ELSE "none"))
    /\ UNCHANGED <<cache_dir, cache_subdirs, now, session, app_log>>
    /\ UNCHANGED <<clientVars, storeVars>>

\* ---------------------------------------------------------- specifications

ClientUnused ==
    /\ base_retries = 3 /\ base_delay = 1 /\ max_delay = 10 /\ rate_limit_delay = 1
    /\ cpc = "idle" /\ method = "get" /\ url = "http://ok" /\ attempt = 0 /\ delay = 0
    /\ last_exception = NoException /\ result = NoException /\ log = <<>>

StoreUnused ==
    /\ state_file = Serialize(DefaultState)
    /\ file_exists = TRUE
    /\ pc = [p \in Procs |-> "idle"]
    /\ op = [p \in Procs |-> NoOp]
    /\ loaded = [p \in Procs |-> EmptyDict]
    /\ state = [p \in Procs |-> EmptyDict]
    /\ offset = [p \in Procs |-> 0]
    /\ ret = [p \in Procs |-> NoRet]
    /\ calls = 0
    /\ order = <<>>
    /\ last_saved = [valid |-> FALSE, doc |-> EmptyDict]
    /\ entry = [p \in Procs |-> NoEntry]
    /\ prev = [p \in Procs |-> NoPrev]

\* The HTTP client: one call of get or post under any configuration
CacheUnused == InitCache
AppUnused == InitApp

Init == InitClient /\ StoreUnused /\ CacheUnused /\ AppUnused
Next ==
    \/ get
    \/ post
    \/ wrapper_return
    \/ wrapper_except_HTTPError
    \/ wrapper_except_Exception
    \/ wrapper_raise
Spec == Init /\ [][Next]_vars

\* The store used by one caller at a time, disk failures included
InitSeq == ClientUnused /\ InitStore /\ CacheUnused /\ AppUnused
NextSeq ==
    \/ save_state(1) \/ clear_state(1)
    \/ get_favorites(1) \/ get_saved_gigs(1)
    \/ get_analysis_history(1) \/ get_generated_gigs(1)
    \/ add_to_favorites(1) \/ remove_from_favorites(1)
    \/ save_gig(1) \/ delete_gig(1)
    \/ add_to_history(1) \/ add_generated_gig(1)
    \/ LoadStep(1) \/ save_open(1) \/ save_write(1)
    \/ save_open_fails(1) \/ save_write_fails(1)
SpecSeq == InitSeq /\ [][NextSeq]_vars

\* One call of the store on a file of any content: missing, empty, cut short,
\* a JSON array, an object that lacks collections, or a whole document
FileTexts ==
    {Serialize(d) : d \in InitDocuments}
      \cup { <<>>, <<ListToken>>,
             <<Member(DefaultState, "favorites")>>,
             Serialize(Doc({"favorites", "saved_gigs"}, <<"k1">>,
                           Upsert(EmptyMap, "k2", "v1"), EmptyMap, EmptyMap)) }
InitFile ==
    /\ ClientUnused /\ CacheUnused /\ AppUnused
    /\ NoCaller
    /\ \/ file_exists = FALSE /\ state_file = <<>>
       \/ file_exists = TRUE /\ state_file \in FileTexts
FirstCall(p) == op[p] = NoOp
NextFile ==
    \/ FirstCall(1) /\ save_state(1)
    \/ FirstCall(1) /\ clear_state(1)
    \/ FirstCall(1) /\ get_favorites(1)
    \/ FirstCall(1) /\ get_saved_gigs(1)
    \/ FirstCall(1) /\ get_analysis_history(1)
    \/ FirstCall(1) /\ get_generated_gigs(1)
    \/ FirstCall(1) /\ add_to_favorites(1)
    \/ FirstCall(1) /\ remove_from_favorites(1)
    \/ FirstCall(1) /\ save_gig(1)
    \/ FirstCall(1) /\ delete_gig(1)
    \/ FirstCall(1) /\ add_to_history(1)
    \/ FirstCall(1) /\ add_generated_gig(1)
    \/ LoadStep(1) \/ save_open(1) \/ save_write(1)
    \/ save_open_fails(1) \/ save_write_fails(1)
SpecFile == InitFile /\ [][NextFile]_vars

\* The cache used by one caller, with time passing between its calls
InitCacheSpec == ClientUnused /\ StoreUnused /\ InitCacheFound /\ AppUnused
NextCache ==
    \/ cache_get
    \/ cache_set
    \/ cache_set_fails
    \/ cache_invalidate
    \/ cache_clear
    \/ Tick
SpecCache == InitCacheSpec /\ [][NextCache]_vars

\* The app used from two browser sessions whose handlers do not overlap in
\* time, on any of the initial documents
InitAppSpec == ClientUnused /\ InitStore /\ CacheUnused /\ InitApp
NextApp ==
    \E s \in Sessions :
        \/ session_init(s)
        \/ app_save_to_favorites(s)
        \/ app_save_gig(s)
        \/ clear_cache_button(s)
SpecApp == InitAppSpec /\ [][NextApp]_vars

\* ---- the optimizer's page fetches: calls of _get_page_data as time passes
InitPage == ClientUnused /\ StoreUnused /\ InitCache /\ AppUnused
NextPage == get_page_data \/ Tick
SpecPage == InitPage /\ [][NextPage]_vars

\* The store called from two request-handling contexts at once, each making
\* one call, on any of the initial documents
InitConc == ClientUnused /\ InitStore /\ CacheUnused /\ AppUnused
NextConc ==
    \E p \in Procs :
        \/ FirstCall(p) /\ get_favorites(p)
        \/ FirstCall(p) /\ get_analysis_history(p)
        \/ FirstCall(p) /\ save_gig(p)
        \/ FirstCall(p) /\ add_to_history(p)
        \/ LoadStep(p) \/ save_open(p) \/ save_write(p)
SpecConc == InitConc /\ [][NextConc]_vars

\* ------------------------------------------------------------------ claims

IsAttempt(e) == e.ev = "attempt"
IsFailure(e) == e.ev = "attempt" /\ e.cls # "Response"
IsSleep(e) == e.ev \in {"sleep_rate", "sleep_backoff"}
IsBackoff(e) == e.ev = "sleep_backoff"
Attempts == SelectSeq(log, IsAttempt)
Failures == SelectSeq(log, IsFailure)
Sleeps == SelectSeq(log, IsSleep)
BackoffSleeps == SelectSeq(log, IsBackoff)

\* C1: a call whose request fails on every attempt makes exactly
\* base_retries attempts and then raises; it never returns a response and
\* never makes one attempt more.
C1_ExactlyNAttemptsThenRaise ==
    /\ Len(Attempts) <= base_retries
    /\ cpc = "raised" =>
          /\ Len(Attempts) = base_retries
          /\ Len(Failures) = base_retries
          /\ result.cls \notin {"None", "Response"}
    /\ Len(Failures) = Len(Attempts) => cpc # "returned"
    /\ Len(Failures) = base_retries =>
          \/ cpc = "raised"
          \/ /\ cpc = "loop"
             /\ ENABLED wrapper_raise
             /\ ~ENABLED (wrapper_return \/ wrapper_except_HTTPError
                            \/ wrapper_except_Exception)

C1_Witness ==
    /\ cpc = "raised" /\ base_retries = MaxRetries
    /\ Len(Failures) = MaxRetries /\ url = "http://ok"

\* C5: a caller-misuse error (here a malformed url) is not retried: one
\* attempt, no sleep, the error surfaces at once.
C5_MisuseNotRetried ==
    url = "malformed" =>
        /\ Len(Attempts) <= 1
        /\ Len(Sleeps) = 0
        /\ Len(Attempts) = 1 => cpc = "raised"

\* C6: a call that fails on all base_retries attempts sleeps base_retries - 1
\* times, and nothing is slept between the last failed attempt and the raise.
C6_SleepsOnlyBetweenAttempts ==
    cpc = "raised" =>
        /\ Len(BackoffSleeps) = base_retries - 1
        /\ IsAttempt(log[Len(log)])

\* C7: when all attempts fail, the exception raised is the one of the last
\* attempt.
C7_RaisesLastFailure ==
    cpc = "raised" =>
        /\ result = Exc(Failures[Len(Failures)])
        /\ result.at = base_retries

C7_Witness ==
    /\ cpc = "raised" /\ Len(Failures) >= 2
    /\ Exc(Failures[1]).cls # Exc(Failures[Len(Failures)]).cls
    /\ Failures[1].status = 429 /\ result.cls = "ConnectionError"

\* C8: when the request first succeeds on attempt k, the call returns that
\* attempt's response as it is, has made exactly k attempts, and sleeps no
\* more after the successful attempt.
C8_ReturnsFirstSuccess ==
    /\ cpc = "returned" =>
          LET k == Len(Attempts)
              last == log[Len(log)]
          IN /\ k >= 1 /\ k <= base_retries
             /\ IsAttempt(last) /\ last.cls = "Response" /\ last.at = k
             /\ result = Exc(last)
             /\ Len(Failures) = k - 1
             /\ Len(BackoffSleeps) = k - 1
    /\ Len(Failures) < Len(Attempts) => cpc = "returned"

C8_Witness ==
    /\ cpc = "returned" /\ Len(Attempts) = MaxRetries /\ result.at = MaxRetries

\* C9: after an attempt that fails with status 429 the client sleeps
\* rate_limit_delay and then the computed backoff delay; after any other
\* failure it sleeps the computed backoff delay only.
C9_RateLimitSleep ==
    /\ \A i \in 1..Len(log) :
          IsFailure(log[i]) =>
             IF log[i].cls = "HTTPError" /\ log[i].status = 429
                THEN /\ i + 2 <= Len(log)
                     /\ log[i + 1].ev = "sleep_rate"
                     /\ log[i + 1].n = rate_limit_delay
                     /\ log[i + 2].ev = "sleep_backoff"
                ELSE /\ i + 1 <= Len(log)
                     /\ log[i + 1].ev = "sleep_backoff"
    /\ \A i \in 1..Len(log) :
          log[i].ev = "sleep_rate" => i > 1 /\ IsFailure(log[i - 1])
    /\ Len(BackoffSleeps) >= 1 => BackoffSleeps[Len(BackoffSleeps)].n = delay

C9_Witness ==
    /\ rate_limit_delay = 1 /\ Len(log) >= 5
    /\ IsFailure(log[1]) /\ log[1].status = 429 /\ log[2].ev = "sleep_rate"
    /\ IsFailure(log[4]) /\ log[4].status = 500 /\ log[5].ev = "sleep_backoff"

\* C10: the sleep after the first failed attempt is base_delay, and each later
\* sleep is min(2 * previous + jitter, max_delay) with jitter in [0, 1].
C10_BackoffSchedule ==
    base_delay <= max_delay =>
        /\ Len(BackoffSleeps) >= 1 => BackoffSleeps[1].n = base_delay
        /\ \A i \in 2..Len(BackoffSleeps) :
              \E j \in Jitter :
                 BackoffSleeps[i].n = Min(2 * BackoffSleeps[i - 1].n + j, max_delay)

\* C11: with 0 <= base_delay <= max_delay, the backoff sleeps of one call
\* never decrease and none exceeds max_delay, whatever the jitter.
C11_BackoffMonotoneCapped ==
    (0 <= base_delay /\ base_delay <= max_delay) =>
        \A i \in 1..Len(BackoffSleeps) :
            /\ BackoffSleeps[i].n <= max_delay
            /\ i >= 2 => BackoffSleeps[i - 1].n <= BackoffSleeps[i].n

C11_Witness ==
    /\ 0 < base_delay /\ base_delay < max_delay
    /\ Len(BackoffSleeps) = 3
    /\ BackoffSleeps[1].n < BackoffSleeps[2].n
    /\ BackoffSleeps[2].n = max_delay /\ BackoffSleeps[3].n = max_delay

\* ---- the store

Mutators == {"save_gig", "add_to_history", "add_generated_gig"}

\* whether document d holds the entry that the upsert o writes
HasChange(d, o) ==
    LET c == CollectionOf(o.name) IN
    c \in d.has /\ o.key \in DOMAIN d[c] /\ d[c][o.key] = o.val

\* C2: save_state(d), for d with the four collections, followed by the four
\* getters gives back the four collections of d (the write having completed).
C2_RoundTrip ==
    (last_saved.valid /\ last_saved.doc.has = CollectionNames) =>
        /\ \A g \in Getters :
              GetterValue(g, load_state(state_file)) = GetterValue(g, last_saved.doc)
        /\ \A p \in Procs :
              (op[p].name \in Getters /\ ret[p].kind = "value") =>
                  ret[p] = GetterValue(op[p].name, last_saved.doc)

C2_Witness ==
    /\ last_saved.valid /\ last_saved.doc.has = CollectionNames
    /\ op[1].name = "get_generated_gigs" /\ ret[1].kind = "value"
    /\ ret[1].map = Upsert(EmptyMap, "k2", "v1")
    /\ last_saved.doc.favorites = <<"k2", "k1">>

\* C3: no _load_state ever finds the file empty or partly written by a write
\* of the store.
C3_ReadersSeeWholeDocument ==
    \A i \in 1..Len(order) : order[i].ev = "load" => ~order[i].failed

\* The two callers e and l have each run one upsert to its end, both read the
\* document before either wrote it, and e finished writing before l opened
\* the file.
BothReadThenWrote(e, l) ==
    /\ e # l
    /\ pc[e] = "idle" /\ pc[l] = "idle"
    /\ op[e].name \in Mutators /\ op[l].name \in Mutators
    /\ Len(order) >= 6
    /\ {order[1], order[2]} = {Access(e, "load", FALSE), Access(l, "load", FALSE)}
    /\ order[3] = Access(e, "open", FALSE) /\ order[4] = Access(e, "close", FALSE)
    /\ order[5] = Access(l, "open", FALSE) /\ order[6] = Access(l, "close", FALSE)

\* the two upserts write different entries, and e's entry is new
Independent(e, l) ==
    /\ <<CollectionOf(op[e].name), op[e].key>> # <<CollectionOf(op[l].name), op[l].key>>
    /\ ~HasChange(loaded[e], op[e])

\* C4: the lost update.  When two upserts both read the document before either
\* writes it, both return normally and the document left on disk holds the
\* later writer's entry and not the earlier writer's.
C4_LostUpdate ==
    \A e, l \in Procs :
        (BothReadThenWrote(e, l) /\ Independent(e, l) /\ Len(order) = 6) =>
            /\ ret[e] = Returned /\ ret[l] = Returned
            /\ ParseOk(state_file)
            /\ HasChange(load_state(state_file), op[l])
            /\ ~HasChange(load_state(state_file), op[e])

C4_Witness ==
    /\ BothReadThenWrote(1, 2) /\ Independent(1, 2) /\ Len(order) = 6
    /\ op[1].name = "save_gig" /\ op[2].name = "add_to_history"
    /\ pc[1] = "idle" /\ pc[2] = "idle"
    /\ ~HasChange(load_state(state_file), op[1])
    /\ HasChange(load_state(state_file), op[2])

\* ---- claims about the store's operations, one caller

\* the caller's call has finished (returned or raised)
Finished(p) == pc[p] = "idle" /\ op[p] # NoOp
\* no open or write of save_state has raised so far
NoDiskFailure ==
    \A i \in 1..Len(order) : order[i].ev \in {"open", "close"} => ~order[i].failed
\* the file accesses of the caller's current call
Accesses(p) == SubSeq(order, entry[p].mark + 1, Len(order))
Count(q, k) == Cardinality({i \in 1..Len(q) : q[i] = k})
\* what _load_state gave when the call was entered
AtEntry(e) == IF e.exists THEN load_state(e.file) ELSE DefaultState

\* C12: after add_to_favorites(kw) has been called twice in a row, the
\* persisted favorites contain kw exactly once and the second call has left
\* the file as it found it.
C12_AddTwiceIdempotent ==
    \A k \in Keys :
        ( /\ Finished(1) /\ NoDiskFailure
          /\ op[1] = Op("add_to_favorites", k, "", EmptyDict)
          /\ prev[1].op = op[1] ) =>
            /\ Count(load_state_file.favorites, k) = 1
            /\ state_file = entry[1].file
            /\ ret[1] = Returned

\* C13: remove_from_favorites(kw), when kw is not in the persisted favorites,
\* leaves the file exactly as it was and returns without raising.
C13_RemoveAbsentUnchanged ==
    \A k \in Keys :
        ( /\ Finished(1)
          /\ op[1] = Op("remove_from_favorites", k, "", EmptyDict)
          /\ k \notin Elems(AtEntry(entry[1]).favorites) ) =>
            /\ state_file = entry[1].file
            /\ file_exists = entry[1].exists
            /\ ret[1] = Returned

\* the call in progress or just finished adds a keyword the favorites already
\* hold, or removes one they do not hold
NothingToChange(p) ==
    \/ /\ op[p].name = "add_to_favorites"
       /\ op[p].key \in Elems(AtEntry(entry[p]).favorites)
    \/ /\ op[p].name = "remove_from_favorites"
       /\ op[p].key \notin Elems(AtEntry(entry[p]).favorites)
IsRewrite(a) == a.ev = "close" /\ ~a.failed
IsWrite(a) == a.ev \in {"open", "close"}

\* C14 (as stated): adding a keyword that is already present, or removing an
\* absent one, still performs one successful rewrite of the file.
C14_NoChangeStillRewrites ==
    (Finished(1) /\ NothingToChange(1) /\ ret[1] = Returned) =>
        Len(SelectSeq(Accesses(1), IsRewrite)) = 1

\* C14 (amended): adding a keyword that is already present, or removing an
\* absent one, performs no write at all: save_state is not called, the file
\* is only read, and it is left exactly as it was.
C14_NoChangeNoWrite ==
    (op[1].name \in {"add_to_favorites", "remove_from_favorites"}
        /\ NothingToChange(1)) =>
        /\ pc[1] \in {"load", "idle"}
        /\ Len(SelectSeq(Accesses(1), IsWrite)) = 0
        /\ state_file = entry[1].file

C14_Witness ==
    /\ Finished(1) /\ ret[1] = Returned
    /\ op[1] = Op("add_to_favorites", "k1", "", EmptyDict)
    /\ AtEntry(entry[1]).favorites = <<"k2", "k1">>
    /\ prev[1].op.name = "remove_from_favorites" /\ prev[1].op.key = "k1"
    /\ NothingToChange(1)

\* C15: no mutating operation raises to its caller, whatever the file holds:
\* no file, a text that is not JSON, or a JSON object that lacks collections.
C15_MutatorsNeverRaise ==
    \A p \in Procs :
        (op[p].name \notin Getters /\ AtEntry(entry[p]).type = "dict") =>
            ret[p] \notin Exceptions

\* the file the getter found: missing, not JSON, not a JSON object, or an
\* object without the getter's collection
Malformed(e, n) ==
    \/ ~e.exists
    \/ ~IsObject(e.file)
    \/ CollectionOf(n) \notin Parse(e.file).has

\* C16: on a missing or malformed file every getter returns the empty value
\* of its collection and does not raise.
C16_GettersDefaultOnBadFile ==
    (Finished(1) /\ op[1].name \in Getters /\ Malformed(entry[1], op[1].name)) =>
        ret[1] = GetterValue(op[1].name, DefaultState)

\* C17: after save_gig(k, v), get_saved_gigs() maps k to v; after
\* delete_gig(k) it has no entry for k; both leave the entries under other
\* keys as they were; delete_gig of an absent key leaves the file as it was
\* and does not raise.
OthersKept(old, new, k) ==
    /\ DOMAIN old \ {k} = DOMAIN new \ {k}
    /\ \A j \in DOMAIN old \ {k} : old[j] = new[j]
C17_SaveGigUpsertDeleteGig ==
    LET get_saved_gigs_now == GetterValue("get_saved_gigs", load_state_file)
    IN /\ ( /\ Finished(1) /\ NoDiskFailure
            /\ op[1].name \in {"save_gig", "delete_gig"} ) =>
               /\ get_saved_gigs_now.kind = "value"
               /\ OthersKept(AtEntry(entry[1]).saved_gigs, get_saved_gigs_now.map,
                             op[1].key)
               /\ IF op[1].name = "save_gig"
                    THEN /\ op[1].key \in DOMAIN get_saved_gigs_now.map
                         /\ get_saved_gigs_now.map[op[1].key] = op[1].val
                    ELSE op[1].key \notin DOMAIN get_saved_gigs_now.map
       /\ ( /\ Finished(1) /\ NoDiskFailure
            /\ op[1].name = "get_saved_gigs"
            /\ prev[1].op.name \in {"save_gig", "delete_gig"} ) =>
               ret[1] = GetterValue("get_saved_gigs", AtEntry(entry[1]))
       /\ ( /\ Finished(1)
            /\ op[1].name = "delete_gig"
            /\ op[1].key \notin DOMAIN AtEntry(entry[1]).saved_gigs ) =>
               /\ state_file = entry[1].file
               /\ ret[1] = Returned

\* C18: after add_to_history(k, v) or add_generated_gig(k, v) the collection
\* maps k to v, it has at most one entry more than before, and a second call
\* with the same k replaces the entry instead of adding one.
C18_HistoryOverwrite ==
    LET c == CollectionOf(op[1].name)
        old == AtEntry(entry[1])[c]
        new == load_state_file[c]
    IN ( /\ Finished(1) /\ NoDiskFailure
         /\ op[1].name \in {"add_to_history", "add_generated_gig"} ) =>
            /\ op[1].key \in DOMAIN new
            /\ new[op[1].key] = op[1].val
            /\ Cardinality(DOMAIN new) <= Cardinality(DOMAIN old) + 1
            /\ (prev[1].op.name = op[1].name /\ prev[1].op.key = op[1].key) =>
                  Cardinality(DOMAIN new) = Cardinality(DOMAIN old)

\* ---- claims about the cache

\* C19: cache.set(k, v) immediately followed, at the same instant, by
\* cache.get(k, max_age) returns v, for every key and every max_age
\* (timedelta(0) included).
C19_SetThenGetReturnsValue ==
    ( /\ last_call.op = "get" /\ prev_call.op = "set"
      /\ prev_call.key = last_call.key
      /\ prev_call.at = last_call.at ) =>
        last_call.ret = Hit(prev_call.data)

C19_Witness ==
    /\ last_call.op = "get" /\ prev_call.op = "set"
    /\ last_call.key = <<"a", "/", "b">> /\ prev_call.key = last_call.key
    /\ last_call.max_age = timedelta(0)
    /\ prev_call.at = 1 /\ last_call.at = 1
    /\ prev_call.data = "d2" /\ last_call.ret = Hit("d2")

\* C20: cache.get(k, max_age) returns a miss whenever more than max_age has
\* passed since the set of k before it, for every max_age >= 0 (timedelta(0)
\* included).
C20_MissOnceOlderThanMaxAge ==
    ( /\ last_call.op = "get" /\ prev_call.op = "set"
      /\ prev_call.key = last_call.key
      /\ ~last_call.max_age.none
      /\ last_call.at - prev_call.at > last_call.max_age.secs ) =>
        last_call.ret = Miss

\* C21: a set(k, v) that fails leaves the cache as it was: every get returns
\* after it what it returned before it.
C21_FailedSetIsNoOp ==
    [][ (last_call'.op = "set_failed" /\ now' = now) =>
          \A k \in CacheKeys, m \in MaxAges : get_result(k, m)' = get_result(k, m)
      ]_vars

\* C22: invalidate(k) removes exactly the entry of k: get(k) is a miss after
\* it, nothing changes when k had no entry, and get(k2) returns for every
\* other key k2 what it returned before.
C22_InvalidateRemovesOnlyItsKey ==
    [][ (last_call'.op = "invalidate" /\ now' = now) =>
          \A k \in CacheKeys : k = last_call'.key =>
              /\ \A m \in MaxAges : get_result(k, m)' = Miss
              /\ get_cache_key(k) \notin DOMAIN cache_dir => cache_dir' = cache_dir
              /\ \A k2 \in CacheKeys \ {k}, m \in MaxAges :
                    get_result(k2, m)' = get_result(k2, m)
      ]_vars

\* C23: after clear() has returned, get is a miss for every key and every
\* max_age, whatever the cache directory held.
C23_ClearRemovesAll ==
    last_call.op = "clear" =>
        \A k \in CacheKeys, m \in MaxAges : get_result(k, m) = Miss

\* C24: set(k2, v2) does not change what get(k1, max_age) returns for any
\* other key k1, keys that differ only in "/" and "_" included.
C24_DistinctKeysIndependent ==
    [][ (last_call'.op = "set" /\ now' = now) =>
          \A k1 \in CacheKeys \ {last_call'.key}, m \in MaxAges :
              get_result(k1, m)' = get_result(k1, m)
      ]_vars

\* ---- claims about failing and concurrent writes of the store

SixMutators ==
    {"add_to_favorites", "remove_from_favorites", "save_gig", "delete_gig",
     "add_to_history", "add_generated_gig"}
\* the caller's finished call ended in a write that raised part-way
WriteFailed(p) ==
    /\ Finished(p)
    /\ Len(Accesses(p)) >= 1
    /\ Accesses(p)[Len(Accesses(p))] = Access(p, "close", TRUE)
\* the four collections, as the getters return them
Collections(st) == [g \in Getters |-> GetterValue(g, st)]

\* C25: when the write of a mutating call fails part-way, the document that
\* was persisted before the call is still on disk: a later read returns its
\* four collections unchanged.
C25_FailedWriteKeepsDocument ==
    (op[1].name \in SixMutators /\ WriteFailed(1)) =>
        Collections(load_state_file) = Collections(AtEntry(entry[1]))

\* the entries of document old that neither caller's call modifies are in
\* document new, with their values
Modifies(o, c, j) == o.name \in SixMutators /\ CollectionOf(o.name) = c /\ o.key = j
KeptUnlessModified(old, new) ==
    /\ \A j \in Elems(old.favorites) :
          (\A p \in Procs : ~Modifies(op[p], "favorites", j)) =>
              j \in Elems(new.favorites)
    /\ \A c \in CollectionNames \ {"favorites"} :
          \A j \in DOMAIN old[c] :
              (\A p \in Procs : ~Modifies(op[p], c, j)) =>
                  (j \in DOMAIN new[c] /\ new[c][j] = old[c][j])

\* C26: when two concurrent mutating calls have both finished, every entry
\* that was persisted before both started and that neither modifies is still
\* in the persisted document.
C26_OnlyEarlierWritersChangeLost ==
    \A p \in Procs :
        ( /\ \A q \in Procs : Finished(q) /\ op[q].name \in SixMutators
          /\ entry[p].mark = 0 ) =>
            KeptUnlessModified(AtEntry(entry[p]), load_state_file)

\* ---- claims about the app's sessions

\* C27: with both sessions' mirrors initialised from the store, a keyword
\* that session A has added with save_to_favorites is still in the persisted
\* favorites after session B has then added a different keyword with
\* save_to_favorites.
C27_OtherSessionsKeywordKept ==
    ( /\ Len(app_log) = 2
      /\ app_log[1].op = "save_to_favorites" /\ app_log[2].op = "save_to_favorites"
      /\ app_log[1].s # app_log[2].s
      /\ app_log[1].key # app_log[2].key
      /\ app_log[1].inited = Sessions
      /\ app_log[1].persisted ) =>
        app_log[1].key \in Elems(load_state_file.favorites)

\* C28: a save_to_favorites(kw) or save_gig(k, v) that follows the Clear Cache
\* action in a session persists its change: the getter returns it and the
\* session's mirrors equal the persisted document.
C28_SavePersistsAfterClearCache ==
    \A i \in 1..(Len(app_log) - 1) :
        ( /\ i + 1 = Len(app_log)
          /\ app_log[i].op = "clear_cache"
          /\ app_log[i + 1].op \in {"save_to_favorites", "save_gig"}
          /\ app_log[i + 1].s = app_log[i].s ) =>
            LET e == app_log[i + 1]
                saved == Collections(load_state_file)
            IN /\ IF e.op = "save_to_favorites"
                    THEN e.key \in Elems(saved["get_favorites"].fav)
                    ELSE /\ e.key \in DOMAIN saved["get_saved_gigs"].map
                         /\ saved["get_saved_gigs"].map[e.key] = e.val
               /\ Collections(session[e.s].mirror) = saved

\* no open or write of the caller's current call has raised
CallWroteOrSkipped(p) == \A i \in 1..Len(Accesses(p)) : ~IsWrite(Accesses(p)[i]) \/ ~Accesses(p)[i].failed

\* C29: a mutator changes only its own collection: when it has finished, each
\* of the other three collections is read back as it was read before the
\* call.
C29_MutatorChangesOwnCollectionOnly ==
    (Finished(1) /\ op[1].name \in SixMutators /\ CallWroteOrSkipped(1)) =>
        \A g \in Getters :
            CollectionOf(g) # CollectionOf(op[1].name) =>
                GetterValue(g, load_state_file) = GetterValue(g, AtEntry(entry[1]))

C29_Witness ==
    /\ Finished(1) /\ ret[1] = Returned /\ CallWroteOrSkipped(1)
    /\ op[1] = Op("add_to_favorites", "k2", "", EmptyDict)
    /\ load_state_file.favorites = <<"k1", "k2">>
    /\ AtEntry(entry[1]).favorites = <<"k1">>
    /\ DOMAIN load_state_file.saved_gigs = {"k1"}
    /\ DOMAIN load_state_file.analysis_history = {"k2"}

\* ---- claims about the optimizer

\* C30: of two calls of _get_page_data for the same URL less than one hour
\* apart, the first of which returned a fetched page, the second issues no
\* HTTP request and returns the page from the cache.
C30_SecondFetchServedFromCache ==
    \A i, j \in 1..Len(page_log) :
        ( /\ i < j
          /\ page_log[i].url = page_log[j].url
          /\ page_log[i].from = "response"
          /\ page_log[j].at - page_log[i].at < SecondsPerHour ) =>
            ~page_log[j].requested /\ page_log[j].from = "cache"

====
